---- MODULE Spec2Model ----
(***************************************************************************)
(* TiledCompound.__init__ of mbuild/lib/recipes/tiled_compound.py as a     *)
(* state machine: one action per statement group of the constructor, the   *)
(* template tile and the structure under construction as state.            *)
(*                                                                         *)
(* Lengths are integers; a distance is kept as its square, and             *)
(* "dist > dist_thresh" with dist_thresh = L/2 is 4*dist^2 > L^2.          *)
(* Port particles are not given positions or indices: a port is only a     *)
(* child that _hoist_ports re-exposes on the TiledCompound.                *)
(***************************************************************************)
EXTENDS Integers, Sequences, FiniteSets, TLC

VARIABLES tile, tile_before, args, pc, exc, self, loc

vars == <<tile, tile_before, args, pc, exc, self, loc>>

(* ------------------------------ bounds -------------------------------- *)
MaxParticles == 2
MaxTiles == 2
MaxK == 2
MaxX == 3
MaxY == 1
NPorts == 1

(* ------------------------- program constants -------------------------- *)
DefaultK == 10
NoIndex == -1
Inf == -1

Axes == 1..3

Abs(x) == IF x < 0 THEN -x ELSE x

Min2(a, b) == IF a <= b THEN a ELSE b

SetMax(S) == CHOOSE m \in S : \A x \in S : x <= m

SetMin(S) == CHOOSE m \in S : \A x \in S : m <= x

(* ----------------------------- templates ------------------------------ *)
Origin == <<0, 0, 0>>

Positions == {<<x, y, 0>> : x \in 0..MaxX, y \in 0..MaxY}

GridBox == <<MaxX + 1, MaxY + 1, 1>>

NoBox == <<>>

(* Compound.get_boundingbox: the tight bounding box of all particles.      *)
get_boundingbox(pos) ==
    LET ext(a) == SetMax({pos[i][a] : i \in DOMAIN pos})
                  - SetMin({pos[i][a] : i \in DOMAIN pos})
    IN  <<ext(1), ext(2), ext(3)>>

PairKey(b) == b[1] * (MaxParticles + 2) + b[2]

(* A set of index pairs as the sequence in enumeration order.              *)
RECURSIVE SortPairs(_)
SortPairs(S) ==
    IF S = {} THEN <<>>
    ELSE LET m == CHOOSE x \in S : \A y \in S : PairKey(x) <= PairKey(y)
         IN  <<m>> \o SortPairs(S \ {m})

BondSeqs(P) ==
    {SortPairs(S) : S \in SUBSET {<<i, j>> \in (1..P) \X (1..P) : i < j}}

TilesOf(P) ==
    {[pos |-> ps, bonds |-> bs, box |-> bx, periodicity |-> per,
      index |-> [i \in 1..P |-> NoIndex], parent |-> "none", ports |-> NPorts] :
        ps \in {s \in [1..P -> Positions] : s[1] = Origin},
        bs \in BondSeqs(P),
        bx \in {NoBox, GridBox},
        per \in BOOLEAN \X BOOLEAN \X BOOLEAN}

(* A template the collaborators accept: a periodic axis has a positive     *)
(* length, in the box given or in the bounding box that replaces it.       *)
WellFormed(t) ==
    LET b == IF t.box = NoBox THEN get_boundingbox(t.pos) ELSE t.box
    IN  \A a \in Axes : t.periodicity[a] => b[a] > 0

Tiles == {t \in UNION {TilesOf(P) : P \in 1..MaxParticles} : WellFormed(t)}

NTilesSet == (0..MaxTiles) \X (0..MaxTiles) \X (0..MaxTiles)

KSet == (1..MaxK) \cup {DefaultK}

(* ------------------------- state of one call -------------------------- *)
EmptySelf ==
    [box |-> NoBox, periodicity |-> <<>>, children |-> <<>>, bonds |-> {},
     labels |-> {}, particle_kdtree |-> <<>>]

EmptyLoc ==
    [todo |-> <<>>, dist_thresh |-> Inf, periodic_bonds |-> {},
     bonds_to_remove |-> {}, bonds_to_add |-> {}, scan |-> <<>>]

NoArgs == [n_tiles |-> <<1, 1, 1>>, k |-> DefaultK]

Init ==
    /\ tile \in Tiles
    /\ tile_before = tile
    /\ args = NoArgs
    /\ pc = "idle"
    /\ exc = "none"
    /\ self = EmptySelf
    /\ loc = EmptyLoc

(* TiledCompound(tile, n_tiles, k=...): a call on a free-standing template *)
(* starts with an empty Compound. tile_before is the caller's snapshot of  *)
(* the template as it is handed in.                                        *)
Call ==
    /\ pc \in {"idle", "done", "raised"}
    /\ tile.parent = "none"
    /\ \E n \in NTilesSet, kk \in KSet : args' = [n_tiles |-> n, k |-> kk]
    /\ pc' = "check_positive"
    /\ exc' = "none"
    /\ self' = EmptySelf
    /\ loc' = EmptyLoc
    /\ tile_before' = tile
    /\ UNCHANGED tile

(* if not np.all(n_tiles > 0): raise ValueError                            *)
CheckPositive ==
    /\ pc = "check_positive"
    /\ IF \A a \in Axes : args.n_tiles[a] > 0
       THEN pc' = "ensure_box" /\ exc' = exc
       ELSE pc' = "raised" /\ exc' = "ValueError"
    /\ UNCHANGED <<tile_before, tile, args, self, loc>>

(* if tile.box is None: tile.box = tile.get_boundingbox()                  *)
EnsureBox ==
    /\ pc = "ensure_box"
    /\ tile' = IF tile.box = NoBox
               THEN [tile EXCEPT !.box = get_boundingbox(tile.pos)]
               ELSE tile
    /\ pc' = "check_periodic"
    /\ UNCHANGED <<tile_before, args, exc, self, loc>>

(* Tile not periodic in at least one of the specified dimensions.          *)
CheckPeriodic ==
    /\ pc = "check_periodic"
    /\ IF \A a \in Axes : args.n_tiles[a] = 1 \/ tile.periodicity[a]
       THEN pc' = "set_attrs" /\ exc' = exc
       ELSE pc' = "raised" /\ exc' = "ValueError"
    /\ UNCHANGED <<tile_before, tile, args, self, loc>>

(* self.periodicity = tile.periodicity; self.box = Box(lengths * n_tiles)  *)
WithAttrs(s, t, n) ==
    [s EXCEPT !.periodicity = t.periodicity,
              !.box = <<t.box[1] * n[1], t.box[2] * n[2], t.box[3] * n[3]>>]

SetAttrs ==
    /\ pc = "set_attrs"
    /\ self' = WithAttrs(self, tile, args.n_tiles)
    /\ pc' = IF \A a \in Axes : args.n_tiles[a] = 1 THEN "fast_path" ELSE "assign_index"
    /\ UNCHANGED <<tile_before, tile, args, exc, loc>>

(* ------------------------- the Compound tree -------------------------- *)
(* A particle of the TiledCompound is <<c, i>>: particle i of child c. A   *)
(* child added by reference (alias) reads its particles from the tile.     *)
NParticles(s) == Len(s.children) * Len(tile.pos)

particles(s) ==
    [n \in 1..NParticles(s) |->
        <<((n - 1) \div Len(tile.pos)) + 1, ((n - 1) % Len(tile.pos)) + 1>>]

Order(p) == (p[1] - 1) * Len(tile.pos) + p[2]

PosOf(s, p) ==
    IF s.children[p[1]].alias THEN tile.pos[p[2]] ELSE s.children[p[1]].pos[p[2]]

IndexOf(s, p) ==
    IF s.children[p[1]].alias THEN tile.index[p[2]] ELSE s.children[p[1]].index[p[2]]

(* clone(tile): a deep copy; particle.index is copied with the particle.   *)
clone(t) ==
    [alias |-> FALSE, pos |-> t.pos, index |-> t.index, bonds |-> t.bonds,
     ports |-> t.ports, ijk |-> <<0, 0, 0>>]

(* A faulty TileRef: the tile is added without its bonds.                  *)
TileRef_NoBonds(t) ==
    [alias |-> TRUE, pos |-> <<>>, index |-> <<>>, bonds |-> <<>>,
     ports |-> t.ports, ijk |-> <<0, 0, 0>>]

(* The tile itself, handed to add() by reference.                          *)
TileRef(t) ==
    [alias |-> TRUE, pos |-> <<>>, index |-> <<>>, bonds |-> t.bonds,
     ports |-> t.ports, ijk |-> <<0, 0, 0>>]

translate(c, by) ==
    [c EXCEPT !.pos = [i \in DOMAIN c.pos |->
                         <<c.pos[i][1] + by[1], c.pos[i][2] + by[2], c.pos[i][3] + by[3]>>]]

(* A faulty ChildBonds: the copy shares the bonds of the first child.      *)
ChildBonds_Shallow(c, new_tile) ==
    {{<<1, new_tile.bonds[b][1]>>, <<1, new_tile.bonds[b][2]>>} : b \in DOMAIN new_tile.bonds}

(* The bonds a child brings into the parent's bond graph.                  *)
ChildBonds(c, new_tile) ==
    {{<<c, new_tile.bonds[b][1]>>, <<c, new_tile.bonds[b][2]>>} : b \in DOMAIN new_tile.bonds}

(* self.add(new_tile, label=f"{name}_{i}-{j}-{k}")                          *)
_add_tile(s, new_tile, ijk) ==
    LET c == Len(s.children) + 1
    IN  [s EXCEPT !.children = Append(@, [new_tile EXCEPT !.ijk = ijk]),
                  !.bonds = @ \cup ChildBonds(c, new_tile)]

(* self.add(port, containment=False) for every Port child of the tile.     *)
_hoist_ports(s, c) ==
    [s EXCEPT !.labels = @ \cup {<<c, q>> : q \in 1..s.children[c].ports}]

(* A faulty GridSeq: the last grid coordinate is left out.                 *)
GridSeq_Short(n) ==
    [m \in 1..(n[1] * n[2] * n[3] - 1) |->
        <<(m - 1) \div (n[2] * n[3]), ((m - 1) \div n[3]) % n[2], (m - 1) % n[3]>>]

(* it.product(range(n[0]), range(n[1]), range(n[2]))                       *)
GridSeq(n) ==
    [m \in 1..(n[1] * n[2] * n[3]) |->
        <<(m - 1) \div (n[2] * n[3]), ((m - 1) \div n[3]) % n[2], (m - 1) % n[3]>>]

(* if all(n_tiles == 1): add the tile itself and return.                   *)
FastPath ==
    /\ pc = "fast_path"
    /\ self' = _hoist_ports(_add_tile(self, TileRef(tile), <<0, 0, 0>>), 1)
    /\ tile' = [tile EXCEPT !.parent = "tiled"]
    /\ pc' = "done"
    /\ UNCHANGED <<tile_before, args, exc, loc>>

(* for idx, particle in enumerate(tile.particles()): particle.index = idx  *)
Enumerated(t) == [t EXCEPT !.index = [i \in DOMAIN t.pos |-> i - 1]]

AssignIndex ==
    /\ pc = "assign_index"
    /\ tile' = Enumerated(tile)
    /\ loc' = [loc EXCEPT !.todo = GridSeq(args.n_tiles)]
    /\ pc' = "replicate"
    /\ UNCHANGED <<tile_before, args, exc, self>>

(* One pass of the replication loop: clone, translate, add, hoist.         *)
ReplicaOf(t, ijk) ==
    translate(clone(t), <<ijk[1] * t.box[1], ijk[2] * t.box[2], ijk[3] * t.box[3]>>)

AddReplica(s, t, ijk) ==
    _hoist_ports(_add_tile(s, ReplicaOf(t, ijk), ijk), Len(s.children) + 1)

Replicate ==
    /\ pc = "replicate"
    /\ loc.todo # <<>>
    /\ self' = AddReplica(self, tile, Head(loc.todo))
    /\ loc' = [loc EXCEPT !.todo = Tail(@)]
    /\ pc' = IF Len(loc.todo) = 1 THEN "periodic_bonds" ELSE "replicate"
    /\ UNCHANGED <<tile_before, tile, args, exc>>

(* ----------------------------- geometry ------------------------------- *)
(* |p - q|^2, as np.linalg.norm(particle1.pos - particle2.pos) squares.    *)
NormSq(p, q) ==
    (p[1] - q[1]) * (p[1] - q[1]) + (p[2] - q[2]) * (p[2] - q[2])
    + (p[3] - q[3]) * (p[3] - q[3])

(* The minimum-image separation along one axis of length L.                *)
AxisImage(L, periodic, x, y) ==
    IF periodic
    THEN LET m == Abs(x - y) % L IN Min2(m, L - m)
    ELSE Abs(x - y)

(* Compound.min_periodic_distance under a box and periodicity, squared.    *)
min_periodic_distance(box, per, p, q) ==
    LET d(a) == AxisImage(box[a], per[a], p[a], q[a])
    IN  d(1) * d(1) + d(2) * d(2) + d(3) * d(3)

(* dist > dist_thresh, with the distance squared and twice the threshold   *)
(* (np.min(threshold_calc), np.inf when no axis is periodic).              *)
Exceeds(distSq, twice_thresh) ==
    twice_thresh # Inf /\ 4 * distSq > twice_thresh * twice_thresh

threshold_calc(t) ==
    LET ls == {t.box[a] : a \in {x \in Axes : t.periodicity[x]}}
    IN  IF ls = {} THEN Inf ELSE SetMin(ls)

(* Bonds that were periodic in the original tile.                          *)
PeriodicBondsOf(t, twice_thresh) ==
    {<<t.index[t.bonds[b][1]], t.index[t.bonds[b][2]]>> :
        b \in {x \in DOMAIN t.bonds :
                 Exceeds(NormSq(t.pos[t.bonds[x][1]], t.pos[t.bonds[x][2]]), twice_thresh)}}

WithPeriodicBonds(l, t) ==
    [l EXCEPT !.dist_thresh = threshold_calc(t),
              !.periodic_bonds = PeriodicBondsOf(t, threshold_calc(t))]

FindPeriodicBonds ==
    /\ pc = "periodic_bonds"
    /\ loc' = WithPeriodicBonds(loc, tile)
    /\ pc' = "build_tree"
    /\ UNCHANGED <<tile_before, tile, args, exc, self>>

(* ----------------------- periodic spatial index ----------------------- *)
(* PeriodicKDTree.from_compound: the positions of all particles, in        *)
(* enumeration order, with the box and periodicity of the compound.        *)
from_compound(s) ==
    [data |-> [n \in 1..NParticles(s) |-> PosOf(s, particles(s)[n])],
     bounds |-> s.box, periodicity |-> s.periodicity]

(* tree.query(x, k): the numbers of the k nearest points, nearest first;   *)
(* equal distances in enumeration order.                                   *)
query(tree, x, k) ==
    LET N == Len(tree.data)
        d == [n \in 1..N |->
                min_periodic_distance(tree.bounds, tree.periodicity, x, tree.data[n])]
        before(m, n) == d[m] < d[n] \/ (d[m] = d[n] /\ m < n)
        rank(n) == Cardinality({m \in 1..N : before(m, n)})
    IN  [j \in 1..Min2(k, N) |-> CHOOSE n \in 1..N : rank(n) = j - 1]

NotFound == <<>>

(* _find_particle_image: the first of the k neighbours of query with the   *)
(* index of match; NotFound stands for the raise of MBuildError.           *)
_find_particle_image(s, q, match, k) ==
    LET idxs == query(s.particle_kdtree[1], PosOf(s, q), k)
        neighbors == [j \in DOMAIN idxs |-> particles(s)[idxs[j]]]
        hits == {j \in DOMAIN neighbors : IndexOf(s, neighbors[j]) = IndexOf(s, match)}
    IN  IF hits = {} THEN NotFound ELSE neighbors[SetMin(hits)]

(* An edge {p, q} of the bond graph with its ends in enumeration order.    *)
Lo(bond) == CHOOSE p \in bond : \A q \in bond : Order(p) <= Order(q)

Hi(bond) == CHOOSE p \in bond : \A q \in bond : Order(q) <= Order(p)

RECURSIVE SortBonds(_)
SortBonds(B) ==
    IF B = {} THEN <<>>
    ELSE LET m == CHOOSE x \in B : \A y \in B :
                    \/ Order(Lo(x)) < Order(Lo(y))
                    \/ (Order(Lo(x)) = Order(Lo(y)) /\ Order(Hi(x)) <= Order(Hi(y)))
         IN  <<m>> \o SortBonds(B \ {m})

(* self.bonds(): the edges of the bond graph, child by child; an edge      *)
(* comes out in one orientation or the other.                              *)
BondsIter(s, flip) ==
    LET sorted == SortBonds(s.bonds)
    IN  [m \in DOMAIN sorted |->
            IF flip THEN <<Hi(sorted[m]), Lo(sorted[m])>>
            ELSE <<Lo(sorted[m]), Hi(sorted[m])>>]

WithTree(s) == [s EXCEPT !.particle_kdtree = <<from_compound(s)>>]

BuildTree ==
    /\ pc = "build_tree"
    /\ self' = WithTree(self)
    /\ \E flip \in BOOLEAN : loc' = [loc EXCEPT !.scan = BondsIter(self, flip)]
    /\ pc' = IF self.bonds = {} THEN "remove_bonds" ELSE "scan"
    /\ UNCHANGED <<tile_before, tile, args, exc>>

(* --------------------------- bond repair ------------------------------ *)
(* The bond is skipped unless its index pair, in either order, is in       *)
(* periodic_bonds.                                                         *)
InPeriodicBonds(s, l, p1, p2) ==
    \/ <<IndexOf(s, p1), IndexOf(s, p2)>> \in l.periodic_bonds
    \/ <<IndexOf(s, p2), IndexOf(s, p1)>> \in l.periodic_bonds

IsLong(s, l, p1, p2) ==
    Exceeds(min_periodic_distance(s.box, s.periodicity, PosOf(s, p1), PosOf(s, p2)),
            l.dist_thresh)

(* A faulty QueueAdds: each end is joined to the image of itself.          *)
QueueAdds_Swapped(to_add, p1, p2, image1, image2) ==
    LET a1 == IF <<image1, p1>> \notin to_add THEN to_add \cup {<<p1, image1>>} ELSE to_add
    IN  IF <<image2, p2>> \notin a1 THEN a1 \cup {<<p2, image2>>} ELSE a1

(* bonds_to_add after a bond's two images are known.                       *)
QueueAdds(to_add, p1, p2, image1, image2) ==
    LET a1 == IF <<image2, p1>> \notin to_add THEN to_add \cup {<<p1, image2>>} ELSE to_add
    IN  IF <<image1, p2>> \notin a1 THEN a1 \cup {<<p2, image1>>} ELSE a1

(* One pass of the loop over self.bonds(): the locals after it, and        *)
(* whether _find_particle_image raised.                                    *)
ScanStep(s, l, k) ==
    LET p1 == Head(l.scan)[1]
        p2 == Head(l.scan)[2]
    IN  IF ~InPeriodicBonds(s, l, p1, p2) \/ ~IsLong(s, l, p1, p2)
        THEN [loc |-> [l EXCEPT !.scan = Tail(@)], raised |-> FALSE]
        ELSE LET image2 == _find_particle_image(s, p1, p2, k)
                 image1 == _find_particle_image(s, p2, p1, k)
             IN  IF image2 = NotFound \/ image1 = NotFound
                 THEN [loc |-> [l EXCEPT !.bonds_to_remove = @ \cup {<<p1, p2>>}],
                       raised |-> TRUE]
                 ELSE [loc |-> [l EXCEPT
                                  !.bonds_to_remove = @ \cup {<<p1, p2>>},
                                  !.bonds_to_add = QueueAdds(@, p1, p2, image1, image2),
                                  !.scan = Tail(@)],
                       raised |-> FALSE]

(* A faulty ScanBond: a bond queued for removal is removed from the bond   *)
(* graph at once, inside the loop.                                         *)
ScanBond_Eager ==
    /\ pc = "scan"
    /\ loc.scan # <<>>
    /\ \E r \in {ScanStep(self, loc, args.k)} :
           /\ loc' = r.loc
           /\ self' = [self EXCEPT !.bonds = @ \ {{b[1], b[2]} : b \in r.loc.bonds_to_remove}]
           /\ pc' = IF r.raised THEN "raised"
                    ELSE IF r.loc.scan = <<>> THEN "remove_bonds" ELSE "scan"
           /\ exc' = IF r.raised THEN "MBuildError" ELSE exc
    /\ UNCHANGED <<tile_before, tile, args>>

ScanBond ==
    /\ pc = "scan"
    /\ loc.scan # <<>>
    /\ \E r \in {ScanStep(self, loc, args.k)} :
           /\ loc' = r.loc
           /\ pc' = IF r.raised THEN "raised"
                    ELSE IF r.loc.scan = <<>> THEN "remove_bonds" ELSE "scan"
           /\ exc' = IF r.raised THEN "MBuildError" ELSE exc
    /\ UNCHANGED <<tile_before, tile, args, self>>

(* for bond in bonds_to_remove: self.remove_bond(bond)                     *)
RemoveAll(s, to_remove) ==
    [s EXCEPT !.bonds = @ \ {{b[1], b[2]} : b \in to_remove}]

RemoveBonds ==
    /\ pc = "remove_bonds"
    /\ self' = RemoveAll(self, loc.bonds_to_remove)
    /\ pc' = "add_bonds"
    /\ UNCHANGED <<tile_before, tile, args, exc, loc>>

(* for bond in bonds_to_add: self.add_bond(bond)                           *)
AddAll(s, to_add) ==
    [s EXCEPT !.bonds = @ \cup {{b[1], b[2]} : b \in to_add}]

AddBonds ==
    /\ pc = "add_bonds"
    /\ self' = AddAll(self, loc.bonds_to_add)
    /\ pc' = "cleanup"
    /\ UNCHANGED <<tile_before, tile, args, exc, loc>>

(* particle.index = None for the particles of self; del particle_kdtree.   *)
ClearIndex(s) ==
    [s EXCEPT !.children =
        [c \in DOMAIN @ |-> [@[c] EXCEPT !.index = [i \in DOMAIN @ |-> NoIndex]]]]

Cleanup ==
    /\ pc = "cleanup"
    /\ self' = [ClearIndex(self) EXCEPT !.particle_kdtree = <<>>]
    /\ pc' = "done"
    /\ UNCHANGED <<tile_before, tile, args, exc, loc>>

(* ------------------- the whole repair, as one value ------------------- *)
RECURSIVE ReplicateAll(_, _, _)
ReplicateAll(s, t, todo) ==
    IF todo = <<>> THEN s ELSE ReplicateAll(AddReplica(s, t, Head(todo)), t, Tail(todo))

RECURSIVE ScanAll(_, _, _)
ScanAll(s, l, k) ==
    IF l.scan = <<>> THEN [loc |-> l, raised |-> FALSE]
    ELSE LET r == ScanStep(s, l, k)
         IN  IF r.raised THEN r ELSE ScanAll(s, r.loc, k)

(* Lines 58-133 run on template t for tile counts n: index assignment,     *)
(* replication, repair; the bond graph it ends with, or that it raised.    *)
FullProcedure(t, n, k, flip) ==
    LET s1 == WithTree(ReplicateAll(WithAttrs(EmptySelf, t, n), Enumerated(t), GridSeq(n)))
        l1 == [WithPeriodicBonds(EmptyLoc, Enumerated(t)) EXCEPT !.scan = BondsIter(s1, flip)]
        r  == ScanAll(s1, l1, k)
    IN  IF r.raised
        THEN [raised |-> TRUE, bonds |-> {}, count |-> 0]
        ELSE [raised |-> FALSE,
              bonds |-> AddAll(RemoveAll(s1, r.loc.bonds_to_remove), r.loc.bonds_to_add).bonds,
              count |-> NParticles(s1)]

Next ==
    \/ Call
    \/ CheckPositive
    \/ EnsureBox
    \/ CheckPeriodic
    \/ SetAttrs
    \/ FastPath
    \/ AssignIndex
    \/ Replicate
    \/ FindPeriodicBonds
    \/ BuildTree
    \/ ScanBond
    \/ RemoveBonds
    \/ AddBonds
    \/ Cleanup

Spec == Init /\ [][Next]_vars

(* ======================= properties of the call ======================= *)
Completed == pc = "done"

Grid == {GridSeq(args.n_tiles)[m] : m \in DOMAIN GridSeq(args.n_tiles)}

AllOnes == \A a \in Axes : args.n_tiles[a] = 1

(* The template bonds (by place in tile.bonds) of the Periodic Bond Set.   *)
PeriodicBondSet ==
    {b \in DOMAIN tile.bonds :
        Exceeds(NormSq(tile.pos[tile.bonds[b][1]], tile.pos[tile.bonds[b][2]]),
                threshold_calc(tile))}

(* The template particles an output bond joins.                            *)
TemplatePair(bond) == {p[2] : p \in bond}

InSet(bond) ==
    \E b \in PeriodicBondSet : TemplatePair(bond) = {tile.bonds[b][1], tile.bonds[b][2]}

(* The minimum-image length of an output bond exceeds dist_thresh.         *)
LongInOutput(p, q) ==
    Exceeds(min_periodic_distance(self.box, self.periodicity, PosOf(self, p), PosOf(self, q)),
            threshold_calc(tile))

(* A template bond that is short across the template's own boundary.       *)
CutByBoundary(b) ==
    ~Exceeds(min_periodic_distance(tile.box, tile.periodicity,
                                   tile.pos[tile.bonds[b][1]], tile.pos[tile.bonds[b][2]]),
             threshold_calc(tile))

HasShortBond(p) ==
    \E bond \in self.bonds : p \in bond /\ \A q \in bond \ {p} : ~LongInOutput(p, q)

Product == args.n_tiles[1] * args.n_tiles[2] * args.n_tiles[3]

ChildSize(c) ==
    IF self.children[c].alias THEN Len(tile.pos) ELSE Len(self.children[c].pos)

(* The bonds replication put into the bond graph.                          *)
ReplicatedBonds ==
    UNION {ChildBonds(c, self.children[c]) : c \in DOMAIN self.children}

StitchAborted == pc = "raised" /\ exc = "MBuildError"

(* The lookup of an image of the bond at the head of the scan fails with k.*)
LookupFails(k) ==
    LET p1 == Head(loc.scan)[1]
        p2 == Head(loc.scan)[2]
    IN  \/ _find_particle_image(self, p1, p2, k) = NotFound
        \/ _find_particle_image(self, p2, p1, k) = NotFound

(* C4: when a lookup fails the call has aborted on that bond with the      *)
(* caller's k, and the bond graph still holds exactly the replicated       *)
(* bonds: nothing queued has been removed or added.                        *)
C4_NoPartialStitch ==
    StitchAborted =>
        /\ self.bonds = ReplicatedBonds
        /\ loc.scan # <<>>
        /\ LookupFails(args.k)

C4_Witness ==
    /\ StitchAborted
    /\ loc.bonds_to_remove # {}
    /\ ~LookupFails(DefaultK)

C6_ParticleCount ==
    (pc \in {"periodic_bonds", "build_tree", "scan", "remove_bonds", "add_bonds",
             "cleanup", "done"} \/ StitchAborted) =>
        /\ Len(self.children) = Product
        /\ \A g \in Grid :
              Cardinality({c \in DOMAIN self.children : self.children[c].ijk = g}) = 1
        /\ \A c \in DOMAIN self.children : ChildSize(c) = Len(tile.pos)

C6_Witness ==
    /\ Completed
    /\ Product > 1
    /\ loc.bonds_to_remove # {}

(* The bonds of the output by the template particles they join.            *)
TemplateBonds == {{tile.bonds[b][1], tile.bonds[b][2]} : b \in DOMAIN tile.bonds}

FastDone == Completed /\ AllOnes

(* C7 as stated: on tile counts (1,1,1) the result is the template's       *)
(* particles and bonds, and is what the replicate-then-repair procedure    *)
(* ends with on a one-replica lattice, same success or error included.     *)
C7_FastPathEquivalent ==
    FastDone =>
        /\ NParticles(self) = Len(tile.pos)
        /\ {TemplatePair(bond) : bond \in self.bonds} = TemplateBonds
        /\ Cardinality(self.bonds) = Len(tile.bonds)
        /\ \A flip \in BOOLEAN :
              LET full == FullProcedure(tile, args.n_tiles, args.k, flip)
              IN  ~full.raised /\ full.bonds = self.bonds /\ full.count = NParticles(self)

(* C7 amended: the same, with the equivalence limited to the runs of the   *)
(* full procedure that do not raise the stitching error.                   *)
C7_FastPathEquivalentUnlessRaise ==
    FastDone =>
        /\ NParticles(self) = Len(tile.pos)
        /\ {TemplatePair(bond) : bond \in self.bonds} = TemplateBonds
        /\ Cardinality(self.bonds) = Len(tile.bonds)
        /\ \A flip \in BOOLEAN :
              LET full == FullProcedure(tile, args.n_tiles, args.k, flip)
              IN  ~full.raised => (full.bonds = self.bonds /\ full.count = NParticles(self))

(* A fast-path result whose one-replica repair removes and re-adds a bond. *)
C7_Witness ==
    /\ FastDone
    /\ \E b \in PeriodicBondSet : ~CutByBoundary(b)
    /\ ~FullProcedure(tile, args.n_tiles, args.k, FALSE).raised

Ended == pc \in {"done", "raised"}

(* C2: when a call ends, completed or raised, the template is as it was    *)
(* handed in (particles, index field, bonds, box, parent) and the output   *)
(* holds copies of its particles, not the template itself.                 *)
C2_TemplateUntouched ==
    Ended =>
        /\ tile = tile_before
        /\ \A c \in DOMAIN self.children : ~self.children[c].alias

(* C3: when the configuration error is raised nothing has been mutated:    *)
(* no replica added, no index assigned, no field of the template written.  *)
C3_NoMutationOnConfigError ==
    (pc = "raised" /\ exc = "ValueError") =>
        /\ self.children = <<>>
        /\ self.bonds = {}
        /\ tile.index = tile_before.index
        /\ tile = tile_before

(* C8: every particle of a completed Tiled Structure has index none.       *)
C8_IndicesCleared ==
    Completed =>
        \A c \in DOMAIN self.children : \A i \in DOMAIN tile.pos :
            IndexOf(self, <<c, i>>) = NoIndex

(* C9: the spatial index is attached only once every replica is placed,    *)
(* never on tile counts (1,1,1), and is detached when the call has ended,  *)
(* completed or raised.                                                    *)
C9_TreeScoped ==
    /\ self.particle_kdtree # <<>> => (Len(self.children) = Product /\ ~AllOnes)
    /\ Ended => self.particle_kdtree = <<>>

(* C10: a completed call holds n_x*n_y*n_z times the template's bond count *)
(* of distinct bonds, each joining the template particles of some          *)
(* template bond.                                                          *)
C10_BondConservation ==
    Completed =>
        /\ Cardinality(self.bonds) = Product * Len(tile.bonds)
        /\ \A bond \in self.bonds : TemplatePair(bond) \in TemplateBonds
====
